---- MODULE Spec2Model ----
(***************************************************************************)
(* A model of the Letterboxd scraping pipeline of LetterboxdNew.py and     *)
(* server.py.  Each part has a specification of its own:                   *)
(*   SpecMerge    the record merger (merge_film_data)                      *)
(*   SpecRuns     the run loop (main and the /api/scrape handler)          *)
(*   SpecFetch    the retry orchestrator (get_page_content);               *)
(*                SpecFetchFair is the same with weak fairness             *)
(*   SpecScrape   the concurrency controller (scrape_all_films) in its     *)
(*                three scheduling modes                                   *)
(*   SpecCollect  the discoverer (collect_all_films)                       *)
(*   SpecParse    the listing parser (parse_films_from_html)               *)
(*   SpecExtract  the field extractors (the extract_* methods)             *)
(***************************************************************************)
EXTENDS Integers, Sequences, FiniteSets, TLC

VARIABLES
    \* ---- merge_film_data (SpecMerge)
    store,          \* the record list held by the caller (existing_films)
    again,          \* merge_film_data(store, batch) applied a second time with the same batch
    carried,        \* <<url, rating>> pairs the last merge had to carry over
    merges,         \* number of merge_film_data calls so far
    permuted,       \* the last merge, had the tasks of the batch completed in the
                    \* opposite order
    \* ---- main / scrape_profile (SpecRuns)
    cliFile,        \* <username>_detailed_films.json
    srvFile,        \* data/<username>_films.json
    runs,           \* number of runs so far
    lastRun,        \* the last run: who ran, the urls listed, the urls handed to
                    \* scrape_all_films, whether the user asked to re-scrape all,
                    \* and whether the run wrote its store file
    \* ---- FilmScraper.get_page_content (SpecFetch)
    fUrl,           \* the url argument
    fCfg,           \* which backends the scraper holds: [playwright, selenium]
    fpc,            \* where the call is: start, playwright, fallback, returned
    attempt,        \* the loop variable of "for attempt in range(retries)"
    calls,          \* the backend adapters invoked so far, in order, as <<backend, attempt>>
    sleeps,         \* the backoff base delays slept so far, in order
    fResult,        \* the value returned: Pending, Html or None
    \* ---- FilmScraper.scrape_all_films (SpecScrape)
    all_films,          \* the argument: catalogue entries [url, personal_rating]
    parallel_workers,   \* the argument (1 stands for None or 1)
    use_playwright,     \* self.use_playwright and PLAYWRIGHT_ASYNC_AVAILABLE
    spc,                \* where the controller is
    task,               \* url -> state of the detail task of that url
    outcome,            \* url -> the record its finished, uncollected task returned
    results,            \* the results list of the Playwright scraper or its fallback
    detailed_films,     \* the list scrape_all_films builds and returns
    idx,                \* position of a sequential loop in films_to_process
    interrupted,        \* a KeyboardInterrupt was delivered
    critical,           \* an exception reached "except Exception" of scrape_all_films
    completedAtSignal,  \* urls whose task had completed when the interrupt came
    invokedFor,         \* urls a backend adapter was invoked for
    tries,              \* url -> fetch attempts made for its detail page so far
    errored,            \* urls whose processing raised an error nothing in the task handles
    cleaned,            \* cleanup() has run
    mismatched,         \* urls whose fetched page fails the structure check of lines 256-260
    \* ---- collect_all_films (SpecCollect)
    max_pages,          \* the argument (0 stands for None)
    cpc,                \* where the call is: first, pool, selenium, returned
    nums,               \* the page numbers the pagination links of the first page give
    total_pages,        \* total_pages once the first page was read
    requested,          \* the listing pages requested so far
    waiting,            \* the pages submitted to the pool whose future is not collected
    listed_films,       \* all_films of collect_all_films: the entries of the pages collected
    selenium_films,     \* the entries of the Selenium re-scan
    sel_i,              \* the loop variable i of the Selenium re-scan
    unique_films,       \* the list collect_all_films returns
    selenium_failed,    \* the Selenium re-scan ended in "except Exception" of line 1301
    left_open,          \* the pages whose fetch_page call left its browser open
    \* ---- parse_films_from_html (SpecParse)
    pHtml,              \* the html argument
    pFilms,             \* the list returned
    pDone,              \* the call has returned
    \* ---- the extract_* methods of FilmScraper (SpecExtract)
    soup,               \* the parsed detail page
    xpc,                \* the next key of the film_data dict to be filled
    xFilm               \* the film_data dict so far

mergeVars == <<store, again, carried, merges, permuted>>
runVars == <<cliFile, srvFile, runs, lastRun>>
fetchVars == <<fUrl, fCfg, fpc, attempt, calls, sleeps, fResult>>
scrapeVars == <<all_films, parallel_workers, use_playwright, spc, task, outcome, results,
                detailed_films, idx, interrupted, critical, completedAtSignal,
                invokedFor, tries,
                errored, cleaned, mismatched>>
collectVars == <<max_pages, cpc, nums, total_pages, requested, waiting, listed_films,
                 selenium_films, sel_i, unique_films, selenium_failed, left_open>>
parseVars == <<pHtml, pFilms, pDone>>
extractVars == <<soup, xpc, xFilm>>
pageVars == <<collectVars, parseVars, extractVars>>
vars == <<mergeVars, runVars, fetchVars, scrapeVars, pageVars>>

\* ------------------------------------------------------------------ bounds
MaxStore == 2
MaxBatch == 2
MaxMerges == 2
MaxRuns == 3
MaxFilms == 3
MaxWorkers == 2

\* ------------------------------------------------------------------ data
\* None (a null personal_rating).
Null == "null"

\* Film urls as the catalogue gives them.
UrlA == "https://letterboxd.com/film/alien/"
UrlB == "https://letterboxd.com/film/brazil/"
MergeUrls == {UrlA, UrlB}

\* Titles: two that differ only in case, one that sorts after them.
Titles == {"Alien", "alien", "Brazil"}
Ratings == {Null, "4.5"}

\* str.lower() on the titles of the model.
Lower(t) == CASE t = "Alien" -> "alien"
              [] t = "Brazil" -> "brazil"
              [] OTHER -> t

\* The position of a lower-cased title in Python's string order.
StrRank(s) == CASE s = "alien" -> 1
                [] s = "brazil" -> 2
                [] OTHER -> 0

\* key=lambda x: x.get('title', '').lower()
SortKey(film) == StrRank(Lower(film.title))

MergeRecords == [url : MergeUrls, title : Titles, personal_rating : Ratings]

SeqsUpTo(S, n) == UNION {[1..k -> S] : k \in 0..n}

Urls(films) == {films[i].url : i \in 1..Len(films)}

\* ------------------------------------------------------------------ merge_film_data
\* films_dict[film['url']] = film on an insertion-ordered dict: an existing key
\* keeps its position and takes the new value, a new key goes last.
DictSet(d, film) ==
    IF \E i \in 1..Len(d) : d[i].url = film.url
    THEN [i \in 1..Len(d) |-> IF d[i].url = film.url THEN film ELSE d[i]]
    ELSE Append(d, film)

RECURSIVE DictUpdate(_, _)
DictUpdate(d, films) ==
    IF films = <<>> THEN d
    ELSE DictUpdate(DictSet(d, Head(films)), Tail(films))

\* One step of a sort that is not stable: film goes before the elements whose
\* key equals its own.
RECURSIVE InsertSortedUnstable(_, _)
InsertSortedUnstable(sorted, film) ==
    IF sorted = <<>> THEN <<film>>
    ELSE IF SortKey(Head(sorted)) < SortKey(film)
         THEN <<Head(sorted)>> \o InsertSortedUnstable(Tail(sorted), film)
         ELSE <<film>> \o sorted

\* One step of a stable sort: film goes after every element whose key is not
\* greater than its own.
RECURSIVE InsertSorted(_, _)
InsertSorted(sorted, film) ==
    IF sorted = <<>> THEN <<film>>
    ELSE IF SortKey(Head(sorted)) <= SortKey(film)
         THEN <<Head(sorted)>> \o InsertSorted(Tail(sorted), film)
         ELSE <<film>> \o sorted

RECURSIVE SortedByTitle(_)
SortedByTitle(films) ==
    IF films = <<>> THEN <<>>
    ELSE InsertSorted(SortedByTitle(SubSeq(films, 1, Len(films) - 1)), films[Len(films)])

\* A merge that keeps every record of both lists (no keying by url).
merge_film_data_concat(existing_films, new_films) ==
    SortedByTitle(existing_films \o new_films)

merge_film_data(existing_films, new_films) ==
    SortedByTitle(DictUpdate(DictUpdate(<<>>, existing_films), new_films))

\* The record a list holds for url u: the last one, as a dict built from it would.
RecordFor(films, u) ==
    LET at == {i \in 1..Len(films) : films[i].url = u}
    IN films[CHOOSE i \in at : \A j \in at : j <= i]

\* The carry-over cases of a merge: urls whose existing record has a rating and
\* whose record in the new batch has none.
CarryCases(existing_films, new_films) ==
    {<<u, RecordFor(existing_films, u).personal_rating>> :
        u \in {v \in Urls(existing_films) \cap Urls(new_films) :
                  /\ RecordFor(existing_films, v).personal_rating # Null
                  /\ RecordFor(new_films, v).personal_rating = Null}}

\* The records of a batch in the opposite completion order.
Reversed(films) == [i \in 1..Len(films) |-> films[Len(films) + 1 - i]]

\* One record per url, as scrape_all_films returns them.
OnePerUrl(films) == \A i, j \in 1..Len(films) : films[i].url = films[j].url => i = j

MergeInit ==
    /\ store \in SeqsUpTo(MergeRecords, MaxStore)
    /\ again = store
    /\ permuted = store
    /\ carried = {}
    /\ merges = 0

\* all_detailed_films = merge_film_data(existing_films, newly_scraped)
Merge(new_films) ==
    /\ merges < MaxMerges
    /\ store' = merge_film_data(store, new_films)
    /\ again' = merge_film_data(merge_film_data(store, new_films), new_films)
    /\ carried' = CarryCases(store, new_films)
    /\ permuted' = merge_film_data(store, IF OnePerUrl(new_films) THEN Reversed(new_films)
                                          ELSE new_films)
    /\ merges' = merges + 1
    /\ UNCHANGED <<runVars, fetchVars, scrapeVars, pageVars>>

MergeNext == \E new_films \in SeqsUpTo(MergeRecords, MaxBatch) : Merge(new_films)

\* ------------------------------------------------------------------ runs
StatusSuccess == "success"
StatusFailed == "failed: Failed to get page content"

\* The title a film page (or, for a failed record, the url slug) gives.
TitleOf(u) == IF u = UrlA THEN "Alien" ELSE "Brazil"

\* The catalogue listings collect_all_films can return: deduplicated by url,
\* each entry with the inline personal rating of the listing, or none.
Catalogues ==
    {c \in SeqsUpTo([url : MergeUrls, personal_rating : Ratings], Cardinality(MergeUrls)) :
        \A i, j \in 1..Len(c) : c[i].url = c[j].url => i = j}

\* What scrape_all_films can return for a batch: records of urls of the batch, in
\* completion order, a url without a record when the run was cut short; each
\* record takes the personal rating of its catalogue entry.
scrape_all_films_returns(films) ==
    LET records == {[url |-> films[i].url, title |-> TitleOf(films[i].url),
                     personal_rating |-> films[i].personal_rating, scrape_status |-> st] :
                        i \in 1..Len(films), st \in {StatusSuccess, StatusFailed}}
    IN {r \in SeqsUpTo(records, Len(films)) :
            \A i, j \in 1..Len(r) : r[i].url = r[j].url => i = j}

\* The urls of the records that are not failed ones.
get_scraped_urls_by_status(existing_data) ==
    {existing_data[i].url : i \in {j \in 1..Len(existing_data) :
                                      existing_data[j].scrape_status = StatusSuccess}}

\* get_scraped_urls
get_scraped_urls(existing_data) == Urls(existing_data)

\* [film for film in all_films if film['url'] not in existing_urls]
RECURSIVE NotIn(_, _)
NotIn(films, urls) ==
    IF films = <<>> THEN <<>>
    ELSE IF Head(films).url \in urls THEN NotIn(Tail(films), urls)
         ELSE <<Head(films)>> \o NotIn(Tail(films), urls)

\* What a run did: the urls collect_all_films listed, the urls of the films handed
\* to scrape_all_films, whether the user answered yes to re-scraping all, and
\* whether the run reached the json.dump of its store file.
RunOf(kind, listing, scheduled, rescrape, wrote) ==
    [kind |-> kind, listed |-> Urls(listing), scheduled |-> Urls(scheduled),
     rescrape |-> rescrape, wrote |-> wrote]

\* main() without the return of lines 1360-1362.
MainRunNoEmptyCheck(listing, rescrape) ==
    LET existing_films == cliFile
        new_only == NotIn(listing, get_scraped_urls(existing_films))
        new_films == IF new_only = <<>> THEN listing ELSE new_only
    IN /\ runs < MaxRuns
       /\ runs' = runs + 1
       /\ IF new_only = <<>> /\ ~rescrape
          THEN /\ lastRun' = RunOf("main", listing, <<>>, FALSE, FALSE)
               /\ UNCHANGED <<cliFile, srvFile>>
          ELSE /\ lastRun' = RunOf("main", listing, new_films, new_only = <<>>, TRUE)
               /\ \E newly_scraped \in scrape_all_films_returns(new_films) :
                     /\ cliFile' = merge_film_data(existing_films, newly_scraped)
                     /\ UNCHANGED srvFile
       /\ UNCHANGED <<mergeVars, fetchVars, scrapeVars, pageVars>>

\* main(): load, collect, pick the new films (or all of them when the user asks
\* to re-scrape), scrape, merge, write <username>_detailed_films.json.
MainRun(listing, rescrape) ==
    LET existing_films == cliFile
        new_only == NotIn(listing, get_scraped_urls(existing_films))
        new_films == IF new_only = <<>> THEN listing ELSE new_only
    IN /\ runs < MaxRuns
       /\ runs' = runs + 1
       /\ IF listing = <<>> \/ (new_only = <<>> /\ ~rescrape)
          THEN /\ lastRun' = RunOf("main", listing, <<>>, FALSE, FALSE)
               /\ UNCHANGED <<cliFile, srvFile>>
          ELSE /\ lastRun' = RunOf("main", listing, new_films, new_only = <<>>, TRUE)
               /\ \E newly_scraped \in scrape_all_films_returns(new_films) :
                     /\ cliFile' = merge_film_data(existing_films, newly_scraped)
                     /\ UNCHANGED srvFile
       /\ UNCHANGED <<mergeVars, fetchVars, scrapeVars, pageVars>>

\* scrape_profile(): load <username>_detailed_films.json, collect, scrape all,
\* merge when there is existing data, write data/<username>_films.json.
ServerRun(all_films_basic) ==
    LET existing_data == cliFile
    IN /\ runs < MaxRuns
       /\ runs' = runs + 1
       /\ lastRun' = RunOf("server", all_films_basic, all_films_basic, FALSE,
                           all_films_basic # <<>>)
       /\ IF all_films_basic = <<>>
          THEN UNCHANGED <<cliFile, srvFile>>
          ELSE \E scraped \in scrape_all_films_returns(all_films_basic) :
                  /\ srvFile' = IF existing_data # <<>>
                                THEN merge_film_data(existing_data, scraped)
                                ELSE scraped
                  /\ UNCHANGED cliFile
       /\ UNCHANGED <<mergeVars, fetchVars, scrapeVars, pageVars>>

RunsInit ==
    /\ cliFile = <<>> /\ srvFile = <<>> /\ runs = 0
    /\ lastRun = RunOf("none", <<>>, <<>>, FALSE, FALSE)

RunsNext ==
    \/ \E listing \in Catalogues, rescrape \in BOOLEAN : MainRun(listing, rescrape)
    \/ \E all_films_basic \in Catalogues : ServerRun(all_films_basic)

MergeIdle == store = <<>> /\ again = <<>> /\ carried = {} /\ merges = 0 /\ permuted = <<>>

\* ------------------------------------------------------------------ get_page_content
\* for attempt in range(retries), with retries=3 by default
retries == 3

Pending == "pending"
Html == "html"
None == "None"

\* Values a caller can pass as url: two strings with a scheme other than http(s)
\* or none at all, the empty string, the string 'None', and a value that is not
\* a string.
UrlFtp == "ftp://letterboxd.com/film/casablanca/"
UrlBare == "letterboxd.com/film/dune/"
UrlEmpty == ""
UrlNoneStr == "None"
UrlNotStr == "<int>"
FetchUrls == {UrlA, UrlB, UrlFtp, UrlBare, UrlEmpty, UrlNoneStr, UrlNotStr}

\* isinstance(url, str)
IsStr(u) == u # UrlNotStr

\* bool(url): an empty string is falsy (the non-string of the model is truthy)
Truthy(u) == u # UrlEmpty

\* url.startswith(('http://', 'https://'))
StartsWithHttp(u) == u \in {UrlA, UrlB}

\* The two guards that open get_page_content: neither returns None.
UrlAccepted(u) ==
    /\ ~(~Truthy(u) \/ u = UrlNoneStr \/ ~IsStr(u))
    /\ StartsWithHttp(u)

\* The configurations a FilmScraper can be in after __init__: Playwright
\* started or not, a Selenium browser set up or not.
FetchConfigs == [playwright : BOOLEAN, selenium : BOOLEAN]

FetchInit ==
    /\ fUrl \in FetchUrls
    /\ fCfg \in FetchConfigs
    /\ fpc = "start"
    /\ attempt = 0
    /\ calls = <<>>
    /\ sleeps = <<>>
    /\ fResult = Pending

FetchReturn(v) ==
    /\ fpc' = "returned"
    /\ fResult' = v

\* The head of an attempt: Playwright when it is on and its browser exists,
\* otherwise straight to the second branch.
AttemptEntry == IF fCfg.playwright THEN "playwright" ELSE "fallback"

\* Lines 160-165: the guards, then the first pass of the loop.
FetchEnter ==
    /\ fpc = "start"
    /\ IF UrlAccepted(fUrl)
       THEN /\ fpc' = AttemptEntry
            /\ UNCHANGED fResult
       ELSE FetchReturn(None)
    /\ UNCHANGED <<fUrl, fCfg, attempt, calls, sleeps>>
    /\ UNCHANGED <<mergeVars, runVars, scrapeVars, pageVars>>

\* Lines 168-171: _get_content_playwright returns the html, or None on any
\* error; content is returned when truthy.
TryPlaywright(ok) ==
    /\ fpc = "playwright"
    /\ calls' = Append(calls, <<"playwright", attempt>>)
    /\ IF ok THEN FetchReturn(Html)
       ELSE fpc' = "fallback" /\ UNCHANGED fResult
    /\ UNCHANGED <<fUrl, fCfg, attempt, sleeps>>
    /\ UNCHANGED <<mergeVars, runVars, scrapeVars, pageVars>>

\* Lines 177-184 without the else branch of the last attempt: the exception of
\* the adapter leaves get_page_content.
OnExceptionRaises ==
    IF attempt < retries - 1
    THEN /\ sleeps' = Append(sleeps, 2 ^ attempt)
         /\ attempt' = attempt + 1
         /\ fpc' = AttemptEntry
         /\ UNCHANGED fResult
    ELSE /\ fpc' = "raised"
         /\ UNCHANGED <<fResult, attempt, sleeps>>

\* Lines 177-184: an exception of the attempt; sleep and go round again, or
\* return None after the last attempt.
OnException ==
    IF attempt < retries - 1
    THEN /\ sleeps' = Append(sleeps, 2 ^ attempt)
         /\ attempt' = attempt + 1
         /\ fpc' = AttemptEntry
         /\ UNCHANGED fResult
    ELSE /\ FetchReturn(None)
         /\ UNCHANGED <<attempt, sleeps>>

\* Lines 173-174: return self._get_content_selenium(url), which returns the
\* page source or raises.
TrySelenium(ok) ==
    /\ fpc = "fallback"
    /\ fCfg.selenium
    /\ calls' = Append(calls, <<"selenium", attempt>>)
    /\ IF ok THEN FetchReturn(Html) /\ UNCHANGED <<attempt, sleeps>>
       ELSE OnException
    /\ UNCHANGED <<fUrl, fCfg>>
    /\ UNCHANGED <<mergeVars, runVars, scrapeVars, pageVars>>

\* Line 176: return self._get_content_requests(url), which returns the body or
\* raises.
TryRequests(ok) ==
    /\ fpc = "fallback"
    /\ ~fCfg.selenium
    /\ calls' = Append(calls, <<"requests", attempt>>)
    /\ IF ok THEN FetchReturn(Html) /\ UNCHANGED <<attempt, sleeps>>
       ELSE OnException
    /\ UNCHANGED <<fUrl, fCfg>>
    /\ UNCHANGED <<mergeVars, runVars, scrapeVars, pageVars>>

FetchNext ==
    \/ FetchEnter
    \/ \E ok \in BOOLEAN : TryPlaywright(ok)
    \/ \E ok \in BOOLEAN : TrySelenium(ok)
    \/ \E ok \in BOOLEAN : TryRequests(ok)

FetchIdle ==
    /\ fUrl = UrlA /\ fCfg = [playwright |-> FALSE, selenium |-> FALSE]
    /\ fpc = "returned" /\ attempt = 0 /\ calls = <<>> /\ sleeps = <<>> /\ fResult = None

\* The backends in the order of preference, and the ones a configuration holds.
BackendOrder == <<"playwright", "selenium", "requests">>
Available(cfg) ==
    {"requests"} \cup (IF cfg.playwright THEN {"playwright"} ELSE {})
                 \cup (IF cfg.selenium THEN {"selenium"} ELSE {})
Position(b) == CHOOSE i \in 1..Len(BackendOrder) : BackendOrder[i] = b
Preferred(cfg) ==
    BackendOrder[CHOOSE i \in 1..3 : /\ BackendOrder[i] \in Available(cfg)
                                     /\ \A j \in 1..(i - 1) : BackendOrder[j] \notin Available(cfg)]
\* The backends that come after the preferred one and that the scraper holds.
Later(cfg) == {b \in Available(cfg) : Position(b) > Position(Preferred(cfg))}
Invoked == {calls[i][1] : i \in 1..Len(calls)}

\* ------------------------------------------------------------------ scrape_all_films
\* The key is not in the dict (create_minimal_film_data sets no personal_rating).
Absent == "absent"

StatusBadPage == "failed: Invalid page structure"
StatusRequestsError == "failed: Failed to get page content: <e>"
StatusParseError == "failed: Parse error: <e>"
StatusPlaywrightError == "failed: Playwright fetch error: <e>"
FailedStatuses ==
    {StatusFailed, StatusBadPage, StatusRequestsError, StatusParseError, StatusPlaywrightError}

\* scrape_status.startswith('failed:')
StartsWithFailed(st) == st \in FailedStatuses

\* The outcome of a fetch that returns a page which is not a film page: its
\* title tag has no marker and it has no h1 and no .film-header.
PageMismatch == "page fails the structure check"

\* The urls a caller can hand to scrape_all_films in an entry of all_films.
ScrapeUrls == {UrlA, UrlB, UrlFtp, UrlEmpty}

\* str(film_url).split('/')[-2].replace('-', ' ').title()
SlugTitle(u) == CASE u = UrlA -> "Alien"
                  [] u = UrlB -> "Brazil"
                  [] u = UrlFtp -> "Casablanca"
                  [] u = UrlBare -> "Dune"
                  [] OTHER -> "Unknown"

create_minimal_film_data(film_url, status) ==
    [url |-> film_url, title |-> SlugTitle(film_url), scrape_status |-> status,
     personal_rating |-> Absent]

\* The film_data dict of a page that was fetched and parsed.
film_data(film_url) ==
    [url |-> film_url, title |-> TitleOf(film_url), scrape_status |-> StatusSuccess,
     personal_rating |-> Null]

\* extract_title on a page without a marked title tag and without h1.
UnknownTitle == "Unknown Title"

\* The film_data dict the extractors give for a page that is not a film page.
film_data_unchecked(film_url) == [film_data(film_url) EXCEPT !.title = UnknownTitle]

RecordOf(u, status) ==
    IF status = StatusSuccess THEN film_data(u)
    ELSE IF status = PageMismatch THEN film_data_unchecked(u)
         ELSE create_minimal_film_data(u, status)

\* Lines 633-637: the entries with a url that is truthy and not 'None'.
RECURSIVE valid_films(_)
valid_films(films) ==
    IF films = <<>> THEN <<>>
    ELSE IF Truthy(Head(films).url) /\ Head(films).url # UrlNoneStr
         THEN <<Head(films)>> \o valid_films(Tail(films))
         ELSE valid_films(Tail(films))

\* Line 644 with start_index=0 and max_films covering the list, as both callers pass.
films_to_process == valid_films(all_films)

\* Line 628: personal_ratings_map[url]
personal_ratings_map(u) == RecordFor(all_films, u).personal_rating

\* Lines 717-719
RatingsMergedBack(films) ==
    [i \in 1..Len(films) |->
        IF films[i].url \in Urls(valid_films(all_films))
        THEN [films[i] EXCEPT !.personal_rating = personal_ratings_map(films[i].url)]
        ELSE films[i]]

\* Lines 647 and 651: the scheduling mode.
Mode ==
    IF parallel_workers > 1
    THEN IF use_playwright THEN "playwright" ELSE "threadpool"
    ELSE "sequential"

InFlight == {u \in DOMAIN task : task[u] = "fetching"}

HasPending == \E i \in 1..Len(films_to_process) : task[films_to_process[i].url] = "pending"

\* The first film, in submission order, whose task has not started.
FirstPending ==
    films_to_process[CHOOSE i \in 1..Len(films_to_process) :
        /\ task[films_to_process[i].url] = "pending"
        /\ \A j \in 1..(i - 1) : task[films_to_process[j].url] # "pending"].url

\* A slot is free: ThreadPoolExecutor(max_workers=parallel_workers), and
\* asyncio.Semaphore(parallel_workers) around each page.
SlotFreeUnbounded(inflight, workers) == TRUE

SlotFree(inflight, workers) == inflight < workers

\* results = [...] at line 863: the fallback starts a new list.
FallbackResultsKept(old) == old

FallbackResults(old) == <<>>

\* What scrape_film_details can do with a url: a record with status success,
\* no html, a page that fails the structure check, or an exception raised by the
\* parser or an extractor, which nothing in scrape_film_details handles.
SeqOutcomes(u) ==
    IF UrlAccepted(u) THEN {StatusSuccess, StatusFailed, StatusBadPage, "raise"}
    ELSE {StatusFailed}

\* What _scrape_film_requests can return: requests raises for a url it cannot
\* send, and any exception of the fetch or of the parse becomes a record.
RequestsOutcomes(u) ==
    IF StartsWithHttp(u)
    THEN {StatusSuccess, PageMismatch, StatusRequestsError, StatusParseError}
    ELSE {StatusRequestsError}

\* What fetch(film) of the Playwright scraper can return once its page is open.
PlaywrightOutcomes(u) ==
    IF StartsWithHttp(u)
    THEN {StatusSuccess, PageMismatch, StatusPlaywrightError, StatusParseError}
    ELSE {StatusPlaywrightError}

AllFilms ==
    {f \in SeqsUpTo([url : ScrapeUrls, personal_rating : Ratings], MaxFilms) :
        /\ Len(f) > 0
        /\ \A i, j \in 1..Len(f) : f[i].url = f[j].url => i = j}

ScrapeInit ==
    /\ all_films \in AllFilms
    /\ parallel_workers \in 1..MaxWorkers
    /\ use_playwright \in BOOLEAN
    /\ spc = IF parallel_workers > 1 /\ use_playwright THEN "launch" ELSE "running"
    /\ task = [u \in Urls(valid_films(all_films)) |-> "pending"]
    /\ outcome = [u \in Urls(valid_films(all_films)) |-> ""]
    /\ results = <<>>
    /\ detailed_films = <<>>
    /\ idx = 1
    /\ interrupted = FALSE
    /\ critical = FALSE
    /\ completedAtSignal = {}
    /\ invokedFor = {}
    /\ tries = [u \in Urls(valid_films(all_films)) |-> 0]
    /\ errored = {}
    /\ cleaned = FALSE
    /\ mismatched = {}

scrapeInputs == <<all_films, parallel_workers, use_playwright>>
scrapeGhosts == <<interrupted, critical, completedAtSignal, errored, cleaned, mismatched>>
scrapeFlags == <<interrupted, critical, completedAtSignal, errored, cleaned>>
otherVars == <<mergeVars, runVars, fetchVars, pageVars>>

\* ---- sequential mode, lines 688-707
\* scrape_film_details(film['url']) up to get_page_content, which invokes a
\* backend only for a url it accepts.
SeqBegin ==
    /\ Mode = "sequential" /\ spc = "running"
    /\ idx <= Len(films_to_process)
    /\ LET u == films_to_process[idx].url
       IN /\ task[u] = "pending"
          /\ task' = [task EXCEPT ![u] = "fetching"]
          /\ invokedFor' = IF UrlAccepted(u) THEN invokedFor \cup {u} ELSE invokedFor
          /\ UNCHANGED tries
    /\ UNCHANGED <<scrapeInputs, scrapeGhosts, spc, outcome, results, detailed_films, idx>>
    /\ UNCHANGED otherVars

\* The passes of the loop of get_page_content that scrape_film_details has
\* waited for when it goes on: none for a url the guards refuse, all of them when
\* None came back, and any number up to retries when a page came back.
Rounds(u, st) ==
    IF ~UrlAccepted(u) THEN {0}
    ELSE IF st = StatusFailed THEN {retries} ELSE 1..retries

\* The rest of scrape_film_details and of the loop body: the record is appended,
\* or the exception leaves the loop for "except Exception" at line 711.
SeqFinish(st, rounds) ==
    /\ Mode = "sequential" /\ spc = "running"
    /\ idx <= Len(films_to_process)
    /\ LET u == films_to_process[idx].url
       IN /\ task[u] = "fetching"
          /\ st \in SeqOutcomes(u)
          /\ rounds \in Rounds(u, st)
          /\ tries' = [tries EXCEPT ![u] = @ + rounds]
          /\ IF st = "raise"
             THEN /\ task' = [task EXCEPT ![u] = "raised"]
                  /\ errored' = errored \cup {u}
                  /\ critical' = TRUE
                  /\ spc' = "finishing"
                  /\ UNCHANGED <<detailed_films, idx, mismatched>>
             ELSE /\ task' = [task EXCEPT ![u] = "collected"]
                  /\ detailed_films' = Append(detailed_films, RecordOf(u, st))
                  /\ idx' = idx + 1
                  /\ mismatched' = IF st = StatusBadPage THEN mismatched \cup {u}
                                   ELSE mismatched
                  /\ UNCHANGED <<errored, critical, spc>>
    /\ UNCHANGED <<scrapeInputs, interrupted, completedAtSignal, cleaned, outcome, results,
                   invokedFor>>
    /\ UNCHANGED otherVars

\* The for loop is exhausted.
SeqDone ==
    /\ Mode = "sequential" /\ spc = "running"
    /\ idx > Len(films_to_process)
    /\ spc' = "finishing"
    /\ UNCHANGED <<scrapeInputs, scrapeGhosts, task, outcome, results, detailed_films, idx,
                   invokedFor, tries>>
    /\ UNCHANGED otherVars

\* ---- thread pool mode, lines 665-684
\* A worker thread takes the next queued call of _scrape_film_requests, which
\* calls session.get for any url that is a non-empty string.  The executor keeps
\* running queued calls while its shutdown(wait=True) waits.
PoolStart ==
    /\ Mode = "threadpool" /\ spc \in {"running", "draining"}
    /\ HasPending
    /\ SlotFree(Cardinality(InFlight), parallel_workers)
    /\ task' = [task EXCEPT ![FirstPending] = "fetching"]
    /\ invokedFor' = invokedFor \cup {FirstPending}
    /\ tries' = [tries EXCEPT ![FirstPending] = @ + 1]
    /\ UNCHANGED <<scrapeInputs, scrapeGhosts, spc, outcome, results, detailed_films, idx>>
    /\ UNCHANGED otherVars

\* _scrape_film_requests returns: the future is done.
PoolFinish(u, st) ==
    /\ Mode = "threadpool" /\ spc \in {"running", "draining"}
    /\ u \in InFlight
    /\ st \in RequestsOutcomes(u)
    /\ task' = [task EXCEPT ![u] = "done"]
    /\ outcome' = [outcome EXCEPT ![u] = st]
    /\ mismatched' = IF st = PageMismatch THEN mismatched \cup {u} ELSE mismatched
    /\ UNCHANGED <<scrapeInputs, scrapeFlags, spc, results, detailed_films, idx, invokedFor, tries>>
    /\ UNCHANGED otherVars

\* One pass of the as_completed loop in the main thread.
PoolCollect(u) ==
    /\ Mode = "threadpool" /\ spc = "running"
    /\ u \in DOMAIN task /\ task[u] = "done"
    /\ task' = [task EXCEPT ![u] = "collected"]
    /\ detailed_films' = Append(detailed_films, RecordOf(u, outcome[u]))
    /\ UNCHANGED <<scrapeInputs, scrapeGhosts, spc, outcome, results, idx, invokedFor, tries>>
    /\ UNCHANGED otherVars

\* as_completed is exhausted and the executor exits.
PoolDone ==
    /\ Mode = "threadpool" /\ spc = "running"
    /\ \A u \in DOMAIN task : task[u] = "collected"
    /\ spc' = "finishing"
    /\ UNCHANGED <<scrapeInputs, scrapeGhosts, task, outcome, results, detailed_films, idx,
                   invokedFor, tries>>
    /\ UNCHANGED otherVars

\* An executor whose __exit__ does not wait (shutdown(wait=False)).
PoolDrainedNoWait ==
    /\ Mode = "threadpool" /\ spc = "draining"
    /\ spc' = "finishing"
    /\ UNCHANGED <<scrapeInputs, scrapeGhosts, task, outcome, results, detailed_films, idx,
                   invokedFor, tries>>
    /\ UNCHANGED otherVars

\* After an interrupt the executor's __exit__ returns once every call has run.
PoolDrained ==
    /\ Mode = "threadpool" /\ spc = "draining"
    /\ \A u \in DOMAIN task : task[u] \in {"done", "collected"}
    /\ spc' = "finishing"
    /\ UNCHANGED <<scrapeInputs, scrapeGhosts, task, outcome, results, detailed_films, idx,
                   invokedFor, tries>>
    /\ UNCHANGED otherVars

\* ---- Playwright mode, lines 652-662 and 729-865
\* The switch to the requests fallback of line 863: every film is scraped
\* again, one after the other, into a new results list; the pages of the closed
\* browser are gone.
ToFallback ==
    /\ spc' = "fallback"
    /\ task' = [u \in DOMAIN task |-> "pending"]
    /\ results' = FallbackResults(results)
    /\ idx' = 1

\* async_playwright() and chromium.launch: an exception goes to line 860.
PwLaunch(ok) ==
    /\ Mode = "playwright" /\ spc = "launch"
    /\ IF ok THEN spc' = "running" /\ UNCHANGED <<task, results, idx>>
       ELSE ToFallback
    /\ UNCHANGED <<scrapeInputs, scrapeGhosts, outcome, detailed_films, invokedFor, tries>>
    /\ UNCHANGED otherVars

\* fetch(film) enters the semaphore and opens its page; new_page is outside the
\* try of fetch, so its exception ends the task, comes out of "await coro" and
\* reaches line 860.
PwAcquire(ok) ==
    /\ Mode = "playwright" /\ spc = "running"
    /\ HasPending
    /\ SlotFree(Cardinality(InFlight), parallel_workers)
    /\ invokedFor' = invokedFor \cup {FirstPending}
    /\ IF ok
       THEN /\ task' = [task EXCEPT ![FirstPending] = "fetching"]
            /\ tries' = [tries EXCEPT ![FirstPending] = @ + 1]
            /\ UNCHANGED <<spc, results, idx, errored>>
       ELSE /\ ToFallback
            /\ errored' = errored \cup {FirstPending}
            /\ UNCHANGED tries
    /\ UNCHANGED <<scrapeInputs, interrupted, critical, completedAtSignal, cleaned, outcome,
                   detailed_films, mismatched>>
    /\ UNCHANGED otherVars

\* fetch(film) returns its record, the page closed, and the as_completed loop
\* appends it to results.
PwFinish(u, st) ==
    /\ Mode = "playwright" /\ spc = "running"
    /\ u \in InFlight
    /\ st \in PlaywrightOutcomes(u)
    /\ task' = [task EXCEPT ![u] = "collected"]
    /\ results' = Append(results, RecordOf(u, st))
    /\ mismatched' = IF st = PageMismatch THEN mismatched \cup {u} ELSE mismatched
    /\ UNCHANGED <<scrapeInputs, scrapeFlags, spc, outcome, detailed_films, idx, invokedFor, tries>>
    /\ UNCHANGED otherVars

\* One film of the fallback: _scrape_film_requests begins.
FbBegin ==
    /\ Mode = "playwright" /\ spc = "fallback"
    /\ idx <= Len(films_to_process)
    /\ LET u == films_to_process[idx].url
       IN /\ task[u] = "pending"
          /\ task' = [task EXCEPT ![u] = "fetching"]
          /\ invokedFor' = invokedFor \cup {u}
          /\ tries' = [tries EXCEPT ![u] = @ + 1]
    /\ UNCHANGED <<scrapeInputs, scrapeGhosts, spc, outcome, results, detailed_films, idx>>
    /\ UNCHANGED otherVars

\* ... and returns its record.
FbFinish(st) ==
    /\ Mode = "playwright" /\ spc = "fallback"
    /\ idx <= Len(films_to_process)
    /\ LET u == films_to_process[idx].url
       IN /\ task[u] = "fetching"
          /\ st \in RequestsOutcomes(u)
          /\ task' = [task EXCEPT ![u] = "collected"]
          /\ results' = Append(results, RecordOf(u, st))
          /\ idx' = idx + 1
          /\ mismatched' = IF st = PageMismatch THEN mismatched \cup {u} ELSE mismatched
    /\ UNCHANGED <<scrapeInputs, scrapeFlags, spc, outcome, detailed_films, invokedFor, tries>>
    /\ UNCHANGED otherVars

\* _run_playwright_parallel returns results and lines 654-662 append each of
\* them to detailed_films.
PwDone ==
    /\ Mode = "playwright"
    /\ \/ spc = "running" /\ \A u \in DOMAIN task : task[u] = "collected"
       \/ spc = "fallback" /\ idx > Len(films_to_process)
    /\ detailed_films' = detailed_films \o results
    /\ spc' = "finishing"
    /\ UNCHANGED <<scrapeInputs, scrapeGhosts, task, outcome, results, idx, invokedFor, tries>>
    /\ UNCHANGED otherVars

\* ---- all modes
\* A KeyboardInterrupt in the main thread.  Sequential: it leaves the loop.
\* Thread pool: it leaves as_completed and the executor's __exit__ waits for
\* every call.  Playwright: it comes out of asyncio.run, which neither except
\* clause of _run_playwright_parallel catches, so pw_results is never bound.
Interrupt ==
    /\ spc \in {"launch", "running", "fallback"}
    /\ ~interrupted
    /\ interrupted' = TRUE
    /\ completedAtSignal' = {u \in DOMAIN task : task[u] \in {"done", "collected"}}
    /\ IF Mode = "threadpool"
       THEN spc' = "draining" /\ UNCHANGED task
       ELSE /\ spc' = "finishing"
            /\ task' = [u \in DOMAIN task |->
                          IF task[u] = "fetching" THEN "abandoned" ELSE task[u]]
    /\ UNCHANGED <<scrapeInputs, critical, errored, cleaned, outcome, results, detailed_films,
                   idx, invokedFor, tries, mismatched>>
    /\ UNCHANGED otherVars

\* Lines 713-721: cleanup(), the personal ratings merged back, return.
Return ==
    /\ spc = "finishing"
    /\ cleaned' = TRUE
    /\ detailed_films' = RatingsMergedBack(detailed_films)
    /\ spc' = "returned"
    /\ UNCHANGED <<scrapeInputs, interrupted, critical, completedAtSignal, errored, task,
                   outcome, results, idx, invokedFor, tries, mismatched>>
    /\ UNCHANGED otherVars

ScrapeNext ==
    \/ SeqBegin
    \/ \E st \in FailedStatuses \cup {StatusSuccess, "raise"}, rounds \in 0..retries :
          SeqFinish(st, rounds)
    \/ SeqDone
    \/ PoolStart
    \/ \E u \in ScrapeUrls, st \in FailedStatuses \cup {StatusSuccess, PageMismatch} :
          PoolFinish(u, st)
    \/ \E u \in ScrapeUrls : PoolCollect(u)
    \/ PoolDone
    \/ PoolDrained
    \/ \E ok \in BOOLEAN : PwLaunch(ok)
    \/ \E ok \in BOOLEAN : PwAcquire(ok)
    \/ \E u \in ScrapeUrls, st \in FailedStatuses \cup {StatusSuccess, PageMismatch} :
          PwFinish(u, st)
    \/ FbBegin
    \/ \E st \in FailedStatuses \cup {StatusSuccess, PageMismatch} : FbFinish(st)
    \/ PwDone
    \/ Interrupt
    \/ Return

ScrapeIdle ==
    /\ all_films = <<>> /\ parallel_workers = 1 /\ use_playwright = FALSE
    /\ spc = "returned" /\ task = <<>> /\ outcome = <<>> /\ results = <<>>
    /\ detailed_films = <<>> /\ idx = 1 /\ interrupted = FALSE /\ critical = FALSE
    /\ completedAtSignal = {} /\ invokedFor = {} /\ errored = {} /\ cleaned = TRUE
    /\ tries = <<>>
    /\ mismatched = {}

\* ------------------------------------------------------------------ parse_films_from_html
\* personal_rating = None in a catalogue entry.  A rating the parser computes is
\* held in tenths of a star (3.5 is 35).
NoRating == -1

\* "out of 10": the catalogue's rating classes run from rated-0 to rated-10.
RatingOutOf == 10

Digits == <<"0", "1", "2", "3", "4", "5", "6", "7", "8", "9">>
IsDigit(c) == \E d \in 1..10 : Digits[d] = c
DigitVal(c) == (CHOOSE d \in 1..10 : Digits[d] = c) - 1

\* str(n) as a sequence of characters.
RECURSIVE Decimal(_)
Decimal(n) ==
    IF n < 10 THEN <<Digits[n + 1]>>
    ELSE Decimal(n \div 10) \o <<Digits[(n % 10) + 1]>>

\* int(s) returns for a string of decimal digits and raises ValueError for the
\* empty string and for a string with another character.
IntParses(s) == s # <<>> /\ \A i \in 1..Len(s) : IsDigit(s[i])

RECURSIVE IntOf(_)
IntOf(s) ==
    IF s = <<>> THEN 0
    ELSE IntOf(SubSeq(s, 1, Len(s) - 1)) * 10 + DigitVal(s[Len(s)])

\* A class of a span, split where the parser splits it: cls.startswith('rated-')
\* is prefix = "rated-", and cls.replace('rated-', '') is suffix.
Cls(prefix, suffix) == [prefix |-> prefix, suffix |-> suffix]
ClsRating == Cls("rating", <<>>)
ClsRated(suffix) == Cls("rated-", suffix)

\* The suffixes of the model: the ends and one odd value of the scale, and one
\* suffix that is not a number.
Suffixes == {Decimal(0), Decimal(7), Decimal(RatingOutOf), <<"x">>}

\* The class lists of a rating span.
Spans ==
    {<<ClsRating>>}
        \cup {<<ClsRating, ClsRated(sfx)>> : sfx \in Suffixes}
        \cup {<<ClsRated(sfx)>> : sfx \in Suffixes}

\* A poster carries one rating span or none.
SpanLists == {<<>>} \cup {<<sp>> : sp \in Spans}

\* 'span.rating' and 'span[class*="rated-"]'
HasClassRating(span) == \E i \in 1..Len(span) : span[i].prefix = "rating"
HasClassRated(span) == \E i \in 1..Len(span) : span[i].prefix = "rated-"

\* Lines 1162-1165
rating_spans(spans) ==
    IF SelectSeq(spans, HasClassRating) # <<>> THEN SelectSeq(spans, HasClassRating)
    ELSE SelectSeq(spans, HasClassRated)

\* rating_10 without the division.
HalfTenthsUndivided(rating_10) == rating_10 * 10

\* rating_10 / 2.0, in tenths.
HalfTenths(rating_10) == (rating_10 * 10) \div 2

\* Lines 1177-1188: the first class that starts with 'rated-' decides, and gives
\* nothing when int() raises.
RECURSIVE RatingOfClasses(_)
RatingOfClasses(rating_class) ==
    IF rating_class = <<>> THEN NoRating
    ELSE IF Head(rating_class).prefix = "rated-"
         THEN IF IntParses(Head(rating_class).suffix)
              THEN HalfTenths(IntOf(Head(rating_class).suffix))
              ELSE NoRating
         ELSE RatingOfClasses(Tail(rating_class))

\* Lines 1172-1190: the first span that gives a rating.
RECURSIVE RatingOfSpans(_)
RatingOfSpans(spans) ==
    IF spans = <<>> THEN NoRating
    ELSE IF RatingOfClasses(Head(spans)) # NoRating THEN RatingOfClasses(Head(spans))
         ELSE RatingOfSpans(Tail(spans))

\* The hrefs of the film links: a film, the same film in another letter case
\* and without the trailing slash, and another film.  "" is a poster without link.
HrefA == "/film/alien/"
HrefACase == "/film/Alien/"
HrefANoSlash == "/film/alien"
HrefB == "/film/brazil/"
NoHref == ""

\* A film container as the selectors of lines 1111-1121 find it: the link
\* (data-item-link or the href of the link tag), the title found for it ("" when
\* none is), and its rating spans.
ContainerOf(link, name, spans) == [link |-> link, name |-> name, spans |-> spans]

\* Lines 1130-1158 and 1192-1197
EntryOf(container) ==
    [title |-> container.name,
     url |-> "https://letterboxd.com" \o container.link,
     personal_rating |-> RatingOfSpans(rating_spans(container.spans))]

\* if film_url and title
Listed(container) == container.link # NoHref /\ container.name # ""

RECURSIVE EntriesOf(_)
EntriesOf(containers) ==
    IF containers = <<>> THEN <<>>
    ELSE IF Listed(Head(containers))
         THEN <<EntryOf(Head(containers))>> \o EntriesOf(Tail(containers))
         ELSE EntriesOf(Tail(containers))

\* What fetch_page returns: None, or a page with its film containers.
NoHtml == [fetched |-> FALSE, containers |-> <<>>]
HtmlOf(containers) == [fetched |-> TRUE, containers |-> containers]

parse_films_from_html(html) ==
    IF ~html.fetched THEN <<>> ELSE EntriesOf(html.containers)

MaxContainers == 2

ParseContainers == {ContainerOf(l, n, sp) : l \in {NoHref, HrefA, HrefB}, n \in {"", "Alien"},
                                            sp \in SpanLists}

ParseInit ==
    /\ pHtml \in {NoHtml} \cup {HtmlOf(c) : c \in SeqsUpTo(ParseContainers, MaxContainers)}
    /\ pFilms = <<>>
    /\ pDone = FALSE

Parse ==
    /\ ~pDone
    /\ pFilms' = parse_films_from_html(pHtml)
    /\ pDone' = TRUE
    /\ UNCHANGED <<pHtml, collectVars, extractVars>>
    /\ UNCHANGED <<mergeVars, runVars, fetchVars, scrapeVars>>

ParseNext == Parse

ParseIdle == pHtml = NoHtml /\ pFilms = <<>> /\ pDone = TRUE

\* ------------------------------------------------------------------ collect_all_films
MaxLinked == 3
MaxPagesArg == 2

\* The listing pages the site can serve in the model: a page without film
\* containers, one film with a rating, the same film under hrefs that differ in
\* letter case or in the trailing slash, another film, two films.
PageListings ==
    {HtmlOf(<<>>),
     HtmlOf(<<ContainerOf(HrefA, "Alien", <<<<ClsRating, ClsRated(Decimal(7))>>>>)>>),
     HtmlOf(<<ContainerOf(HrefACase, "Alien", <<>>)>>),
     HtmlOf(<<ContainerOf(HrefANoSlash, "Alien", <<>>)>>),
     HtmlOf(<<ContainerOf(HrefB, "Brazil", <<<<ClsRating>>>>)>>),
     HtmlOf(<<ContainerOf(HrefA, "Alien", <<>>), ContainerOf(HrefB, "Brazil", <<>>)>>)}

\* max(nums)
RECURSIVE MaxOf(_)
MaxOf(S) ==
    IF Cardinality(S) = 1 THEN CHOOSE n \in S : TRUE
    ELSE LET n == CHOOSE m \in S : TRUE
             rest == MaxOf(S \ {n})
         IN IF n > rest THEN n ELSE rest

\* Lines 1225-1226 without the cap.
PageBoundUncapped(detected, cap) == detected

\* Lines 1225-1226: if max_pages: total_pages = min(total_pages, max_pages)
PageBound(detected, cap) ==
    IF cap # 0 THEN (IF detected < cap THEN detected ELSE cap) ELSE detected

\* Lines 1211-1226
TotalPages(page_nums, cap) ==
    PageBound(IF page_nums # {} THEN MaxOf(page_nums) ELSE 1, cap)

\* Lines 1247-1252: the first entry of each url, in order.
RECURSIVE Deduplicate(_, _)
Deduplicate(films, seen) ==
    IF films = <<>> THEN <<>>
    ELSE IF Head(films).url \in seen THEN Deduplicate(Tail(films), seen)
         ELSE <<Head(films)>> \o Deduplicate(Tail(films), seen \cup {Head(films).url})

CollectInit ==
    /\ max_pages \in 0..MaxPagesArg
    /\ cpc = "first"
    /\ nums = {}
    /\ total_pages = 0
    /\ requested = {}
    /\ waiting = {}
    /\ listed_films = <<>>
    /\ selenium_films = <<>>
    /\ sel_i = 1
    /\ unique_films = <<>>
    /\ selenium_failed = FALSE
    /\ left_open = {}

\* What becomes of the Playwright browser of one fetch_page call: none is
\* started (PLAYWRIGHT_AVAILABLE is false); page, browser and driver are closed
\* after page.content(); launch, new_page, goto or content raises and the
\* handler goes on to requests.
NoBrowser == "no browser"
BrowserClosed == "closed"
BrowserLeftOpen == "left open"
BrowserFates == {NoBrowser, BrowserClosed, BrowserLeftOpen}

\* Lines 1071-1094: the close calls follow page.content() inside the try, so
\* an exception skips them.
LeftOpenAfter(open, page, fate) ==
    IF fate = BrowserLeftOpen THEN open \cup {page} ELSE open

notCollect == <<mergeVars, runVars, fetchVars, scrapeVars, parseVars, extractVars>>

\* Lines 1202-1234: fetch_page(first_page_url); without html the call returns
\* []; otherwise the page count is read off the pagination links and every
\* page url is submitted to the pool.
FetchFirst(fate, ok, page_nums) ==
    /\ cpc = "first"
    /\ fate = BrowserClosed => ok
    /\ left_open' = LeftOpenAfter(left_open, 1, fate)
    /\ requested' = requested \cup {1}
    /\ IF ok
       THEN /\ nums' = page_nums
            /\ total_pages' = TotalPages(page_nums, max_pages)
            /\ waiting' = 1..TotalPages(page_nums, max_pages)
            /\ cpc' = "pool"
       ELSE /\ page_nums = {}
            /\ cpc' = "returned"
            /\ UNCHANGED <<nums, total_pages, waiting>>
    /\ UNCHANGED <<max_pages, listed_films, selenium_films, sel_i, unique_films,
                   selenium_failed>>
    /\ UNCHANGED notCollect

\* Lines 1237-1244: fetch_page(url) of a worker returns and the as_completed
\* loop parses the page and extends all_films.
PageFetch(p, fate, html) ==
    /\ cpc = "pool"
    /\ p \in waiting
    /\ fate = BrowserClosed => html.fetched
    /\ left_open' = LeftOpenAfter(left_open, p, fate)
    /\ requested' = requested \cup {p}
    /\ waiting' = waiting \ {p}
    /\ listed_films' = listed_films \o parse_films_from_html(html)
    /\ UNCHANGED <<max_pages, cpc, nums, total_pages, selenium_films, sel_i, unique_films,
                   selenium_failed>>
    /\ UNCHANGED notCollect

\* Lines 1246-1254 without the test of line 1257: the entries are deduplicated
\* and returned, none included.
PagesDoneNoFallback(ok) ==
    /\ cpc = "pool"
    /\ waiting = {}
    /\ ok
    /\ cpc' = "returned"
    /\ unique_films' = Deduplicate(listed_films, {})
    /\ UNCHANGED <<max_pages, nums, total_pages, requested, waiting, listed_films,
                   selenium_films, sel_i, selenium_failed, left_open>>
    /\ UNCHANGED notCollect

\* Lines 1246-1266 and 1301-1304: the pool is done; the entries are
\* deduplicated and returned, unless there is none: then the Selenium browser
\* is started, and when that raises the empty list is returned.
PagesDone(ok) ==
    /\ cpc = "pool"
    /\ waiting = {}
    /\ IF Len(Deduplicate(listed_films, {})) = 0
       THEN /\ cpc' = IF ok THEN "selenium" ELSE "returned"
            /\ selenium_failed' = ~ok
            /\ UNCHANGED unique_films
       ELSE /\ ok
            /\ cpc' = "returned"
            /\ unique_films' = Deduplicate(listed_films, {})
            /\ UNCHANGED selenium_failed
    /\ UNCHANGED <<max_pages, nums, total_pages, requested, waiting, listed_films,
                   selenium_films, sel_i, left_open>>
    /\ UNCHANGED notCollect

\* Lines 1269-1284: browser.get(page_url), the page source parsed; an exception
\* of browser.page_source goes to line 1301 and the empty list is returned.
SeleniumPage(html) ==
    /\ cpc = "selenium"
    /\ sel_i <= total_pages
    /\ requested' = requested \cup {sel_i}
    /\ IF html.fetched
       THEN /\ selenium_films' = selenium_films \o parse_films_from_html(html)
            /\ sel_i' = sel_i + 1
            /\ UNCHANGED cpc
       ELSE /\ cpc' = "returned"
            /\ UNCHANGED <<selenium_films, sel_i>>
    /\ selenium_failed' = ~html.fetched
    /\ UNCHANGED <<max_pages, nums, total_pages, waiting, listed_films, unique_films,
                   left_open>>
    /\ UNCHANGED notCollect

\* Lines 1286-1300: the Selenium entries deduplicated and returned.
SeleniumDone ==
    /\ cpc = "selenium"
    /\ sel_i > total_pages
    /\ unique_films' = Deduplicate(selenium_films, {})
    /\ cpc' = "returned"
    /\ UNCHANGED <<max_pages, nums, total_pages, requested, waiting, listed_films,
                   selenium_films, sel_i, selenium_failed, left_open>>
    /\ UNCHANGED notCollect

CollectNext ==
    \/ \E fate \in BrowserFates, ok \in BOOLEAN, page_nums \in SUBSET (1..MaxLinked) :
          FetchFirst(fate, ok, page_nums)
    \/ \E p \in 1..MaxLinked, fate \in BrowserFates, html \in PageListings \cup {NoHtml} :
          PageFetch(p, fate, html)
    \/ \E ok \in BOOLEAN : PagesDone(ok)
    \/ \E html \in PageListings \cup {NoHtml} : SeleniumPage(html)
    \/ SeleniumDone

CollectIdle ==
    /\ max_pages = 0 /\ cpc = "returned" /\ nums = {} /\ total_pages = 0 /\ requested = {}
    /\ waiting = {} /\ listed_films = <<>> /\ selenium_films = <<>> /\ sel_i = 1
    /\ unique_films = <<>> /\ selenium_failed = FALSE /\ left_open = {}

\* ------------------------------------------------------------------ the extract_* methods
MaxLinks == 3
MaxSources == 2

\* genres[:10], soup.select(selector)[:2] and directors[:2], links[:10] and
\* actors[:10], soup.select("a[href*='/writer/']")[:2]
GenreCap == 10
DirectorCap == 2
ActorCap == 10
WriterCap == 2

\* len(desc) > 10, desc[:500] and len("...")
MinDescription == 10
DescriptionCap == 500
EllipsisLen == 3

\* A link as an extractor sees it: link.get_text().strip(), and which of the
\* extractor's selectors match it.
LinkOf(text, kind) == [text |-> text, kind |-> kind]

\* s[:n]
Take(s, n) == SubSeq(s, 1, IF n < Len(s) THEN n ELSE Len(s))

InList(list, text) == \E i \in 1..Len(list) : list[i] = text

\* for link in links: the text is appended when it is not empty, longer than
\* minLen, and not in the list yet.
RECURSIVE AppendNew(_, _, _)
AppendNew(list, links, minLen) ==
    IF links = <<>> THEN list
    ELSE IF /\ Head(links).text # ""
            /\ Len(Head(links).text) > minLen
            /\ ~InList(list, Head(links).text)
         THEN AppendNew(Append(list, Head(links).text), Tail(links), minLen)
         ELSE AppendNew(list, Tail(links), minLen)

\* for link in links: if writer: writers.append(writer)
RECURSIVE AppendAll(_, _)
AppendAll(list, links) ==
    IF links = <<>> THEN list
    ELSE IF Head(links).text # ""
         THEN AppendAll(Append(list, Head(links).text), Tail(links))
         ELSE AppendAll(list, Tail(links))

\* The three selectors of extract_genres: links of the genres tab, links with a
\* /films/genre/ href (those of the tab among them), .text-slug links with
\* another /genre/ href.
InGenresTab(link) == link.kind = "tab"
IsGenreLink(link) == link.kind \in {"tab", "films"}
IsGenreSlug(link) == link.kind = "slug"

extract_genres(page) ==
    Take(AppendNew(AppendNew(AppendNew(<<>>,
            SelectSeq(page.genre_links, InGenresTab), 1),
            SelectSeq(page.genre_links, IsGenreLink), 1),
            SelectSeq(page.genre_links, IsGenreSlug), 1), GenreCap)

\* The three selectors of extract_directors: links with a /director/ href,
\* /person/ links titled Director, .text-slug links with a /director/ href.
IsDirectorLink(link) == link.kind \in {"director", "director-slug"}
IsDirectorPerson(link) == link.kind = "person"
IsDirectorSlug(link) == link.kind = "director-slug"

extract_directors(page) ==
    Take(AppendNew(AppendNew(AppendNew(<<>>,
            Take(SelectSeq(page.director_links, IsDirectorLink), DirectorCap), 0),
            Take(SelectSeq(page.director_links, IsDirectorPerson), DirectorCap), 0),
            Take(SelectSeq(page.director_links, IsDirectorSlug), DirectorCap), 0), DirectorCap)

\* actor_links: the links of the cast section, or the actor and person links of
\* the page when there is no cast section.
extract_actors(page) ==
    Take(AppendNew(<<>>, Take(page.actor_links, ActorCap), 1), ActorCap)

extract_studios(page) == AppendNew(<<>>, page.studio_links, 0)

\* country != "Country"
NotCountryLabel(link) == link.text # "Country"

extract_country(page) == AppendNew(<<>>, SelectSeq(page.country_links, NotCountryLabel), 2)

extract_writers(page) == AppendAll(<<>>, Take(page.writer_links, WriterCap))

\* A script block of type application/ld+json: one json.loads cannot read (or
\* without content), one without a usable aggregateRating, one whose
\* aggregateRating has the ratingValue given ("" when it is missing or falsy).
\* str(rating) of a JSON number is its decimal text, which is what value holds.
LdBlock(kind, value) == [kind |-> kind, value |-> value]
LdBlocks ==
    {LdBlock("invalid", ""), LdBlock("other", ""), LdBlock("rating", ""),
     LdBlock("rating", "4.2"), LdBlock("rating", "4.3")}

\* Lines 531-547
RECURSIVE LdRating(_)
LdRating(blocks) ==
    IF blocks = <<>> THEN ""
    ELSE IF Head(blocks).kind = "rating" /\ Head(blocks).value # "" THEN Head(blocks).value
         ELSE LdRating(Tail(blocks))

\* The text of an element as words, each a number or not.
Word(chars, isNumber) == [chars |-> chars, isNumber |-> isNumber]

\* re.search(r'(\d+(?:\.\d+)?)', rating_text): the first number of the text.
RECURSIVE rating_match(_)
rating_match(rating_text) ==
    IF rating_text = <<>> THEN ""
    ELSE IF Head(rating_text).isNumber THEN Head(rating_text).chars
         ELSE rating_match(Tail(rating_text))

\* The element select_one finds for a selector: its data-average-rating
\* attribute ("" without one) and its text.
CssElem(attr, text) == [attr |-> attr, text |-> text]
CssElems ==
    {CssElem("4.1", <<>>),
     CssElem("", <<Word("3.9", TRUE)>>),
     CssElem("", <<Word("n/a", FALSE)>>),
     CssElem("4.0", <<Word("Rated", FALSE), Word("3.8", TRUE)>>)}

\* Lines 559-569 over the elements of the selectors that match, in the order of
\* the selectors: of each element the attribute, then the number of its text.
RECURSIVE CssRating(_)
CssRating(elems) ==
    IF elems = <<>> THEN ""
    ELSE IF Head(elems).attr # "" THEN Head(elems).attr
         ELSE IF rating_match(Head(elems).text) # "" THEN rating_match(Head(elems).text)
              ELSE CssRating(Tail(elems))

extract_average_rating(page) ==
    IF LdRating(page.ld_json) # "" THEN LdRating(page.ld_json)
    ELSE IF CssRating(page.css) # "" THEN CssRating(page.css)
         ELSE IF page.meta # "" THEN page.meta
              ELSE Null

\* The description: whether one was found, and how many characters it has.
NoDescription == [found |-> FALSE, length |-> 0]

\* Lines 587-592 over the lengths of the texts of the elements the selectors
\* find, in the order of the selectors: desc[:500] + "..." if len(desc) > 500.
RECURSIVE extract_description_of(_)
extract_description_of(lengths) ==
    IF lengths = <<>> THEN NoDescription
    ELSE IF Head(lengths) > 0 /\ Head(lengths) > MinDescription
         THEN [found |-> TRUE,
               length |-> IF Head(lengths) > DescriptionCap
                          THEN DescriptionCap + EllipsisLen
                          ELSE Head(lengths)]
         ELSE extract_description_of(Tail(lengths))

extract_description(page) == extract_description_of(page.desc)

\* ---- the pages of the model
EmptySoup ==
    [genre_links |-> <<>>, director_links |-> <<>>, actor_links |-> <<>>,
     studio_links |-> <<>>, country_links |-> <<>>, writer_links |-> <<>>,
     ld_json |-> <<>>, css |-> <<>>, meta |-> "", desc |-> <<>>]

LinkSeqs(texts, kinds) == SeqsUpTo({LinkOf(t, k) : t \in texts, k \in kinds}, MaxLinks)

\* n links of one kind with n different texts.
ManyLinks(n, kind) == [i \in 1..n |-> LinkOf("Name " \o ToString(i), kind)]

DescLengths ==
    {0, MinDescription, MinDescription + 1, DescriptionCap, DescriptionCap + 1,
     DescriptionCap + 100}

\* Pages that differ from the empty page in the part one extractor reads.
Soups ==
    {[EmptySoup EXCEPT !.genre_links = l] :
        l \in LinkSeqs({"A", "Drama", "Horror"}, {"tab", "films", "slug"})
              \cup {ManyLinks(GenreCap + 2, "films")}}
    \cup {[EmptySoup EXCEPT !.director_links = l] :
        l \in LinkSeqs({"Ann", "Bob", "Cy"}, {"director", "director-slug", "person"})}
    \cup {[EmptySoup EXCEPT !.actor_links = l] :
        l \in LinkSeqs({"A", "Ann", "Bob"}, {"actor"}) \cup {ManyLinks(ActorCap + 2, "actor")}}
    \cup {[EmptySoup EXCEPT !.studio_links = l] : l \in LinkSeqs({"", "A24", "BBC"}, {"studio"})}
    \cup {[EmptySoup EXCEPT !.country_links = l] :
        l \in LinkSeqs({"UK", "USA", "Country", "France"}, {"country"})}
    \cup {[EmptySoup EXCEPT !.writer_links = l] : l \in LinkSeqs({"", "Ann", "Bob"}, {"writer"})}
    \cup {[EmptySoup EXCEPT !.ld_json = b, !.css = c, !.meta = m] :
        b \in SeqsUpTo(LdBlocks, MaxSources), c \in SeqsUpTo(CssElems, MaxSources),
        m \in {"", "3.7"}}
    \cup {[EmptySoup EXCEPT !.desc = d] : d \in SeqsUpTo(DescLengths, MaxSources)}

EmptyFilm ==
    [genres |-> <<>>, directors |-> <<>>, actors |-> <<>>, studios |-> <<>>,
     country |-> <<>>, writers |-> <<>>, average_rating |-> Null,
     description |-> NoDescription]

ExtractInit ==
    /\ soup \in Soups
    /\ xpc = "genres"
    /\ xFilm = EmptyFilm

notExtract == <<mergeVars, runVars, fetchVars, scrapeVars, collectVars, parseVars>>

\* The entries of the film_data dict, in the order lines 263-282 fill them.
ExtractGenres ==
    /\ xpc = "genres"
    /\ xFilm' = [xFilm EXCEPT !.genres = extract_genres(soup)]
    /\ xpc' = "directors"
    /\ UNCHANGED <<soup, notExtract>>

ExtractDirectors ==
    /\ xpc = "directors"
    /\ xFilm' = [xFilm EXCEPT !.directors = extract_directors(soup)]
    /\ xpc' = "actors"
    /\ UNCHANGED <<soup, notExtract>>

ExtractActors ==
    /\ xpc = "actors"
    /\ xFilm' = [xFilm EXCEPT !.actors = extract_actors(soup)]
    /\ xpc' = "studios"
    /\ UNCHANGED <<soup, notExtract>>

ExtractStudios ==
    /\ xpc = "studios"
    /\ xFilm' = [xFilm EXCEPT !.studios = extract_studios(soup)]
    /\ xpc' = "country"
    /\ UNCHANGED <<soup, notExtract>>

ExtractCountry ==
    /\ xpc = "country"
    /\ xFilm' = [xFilm EXCEPT !.country = extract_country(soup)]
    /\ xpc' = "writers"
    /\ UNCHANGED <<soup, notExtract>>

ExtractWriters ==
    /\ xpc = "writers"
    /\ xFilm' = [xFilm EXCEPT !.writers = extract_writers(soup)]
    /\ xpc' = "average_rating"
    /\ UNCHANGED <<soup, notExtract>>

ExtractAverageRating ==
    /\ xpc = "average_rating"
    /\ xFilm' = [xFilm EXCEPT !.average_rating = extract_average_rating(soup)]
    /\ xpc' = "description"
    /\ UNCHANGED <<soup, notExtract>>

ExtractDescription ==
    /\ xpc = "description"
    /\ xFilm' = [xFilm EXCEPT !.description = extract_description(soup)]
    /\ xpc' = "done"
    /\ UNCHANGED <<soup, notExtract>>

ExtractNext ==
    \/ ExtractGenres
    \/ ExtractDirectors
    \/ ExtractActors
    \/ ExtractStudios
    \/ ExtractCountry
    \/ ExtractWriters
    \/ ExtractAverageRating
    \/ ExtractDescription

ExtractIdle == soup = EmptySoup /\ xpc = "done" /\ xFilm = EmptyFilm

\* ------------------------------------------------------------------ specifications
PageIdle == CollectIdle /\ ParseIdle /\ ExtractIdle

InitMerge == MergeInit /\ RunsInit /\ FetchIdle /\ ScrapeIdle /\ PageIdle
SpecMerge == InitMerge /\ [][MergeNext]_vars

InitRuns == RunsInit /\ MergeIdle /\ FetchIdle /\ ScrapeIdle /\ PageIdle
SpecRuns == InitRuns /\ [][RunsNext]_vars

InitFetch == FetchInit /\ MergeIdle /\ RunsInit /\ ScrapeIdle /\ PageIdle
SpecFetch == InitFetch /\ [][FetchNext]_vars

\* get_page_content runs in one thread, each adapter call bounded by its
\* timeout: a call that can take a step takes it.
SpecFetchFair == InitFetch /\ [][FetchNext]_vars /\ WF_vars(FetchNext)

InitScrape == ScrapeInit /\ MergeIdle /\ RunsInit /\ FetchIdle /\ PageIdle
SpecScrape == InitScrape /\ [][ScrapeNext]_vars

InitCollect ==
    /\ CollectInit /\ MergeIdle /\ RunsInit /\ FetchIdle /\ ScrapeIdle /\ ParseIdle
    /\ ExtractIdle
SpecCollect == InitCollect /\ [][CollectNext]_vars

InitParse ==
    /\ ParseInit /\ MergeIdle /\ RunsInit /\ FetchIdle /\ ScrapeIdle /\ CollectIdle
    /\ ExtractIdle
SpecParse == InitParse /\ [][ParseNext]_vars

InitExtract ==
    /\ ExtractInit /\ MergeIdle /\ RunsInit /\ FetchIdle /\ ScrapeIdle /\ CollectIdle
    /\ ParseIdle
SpecExtract == InitExtract /\ [][ExtractNext]_vars

\* ------------------------------------------------------------------ claims on merge_film_data
\* C1: after any sequence of merge_film_data calls the returned store holds at
\* most one record per url.
C1_OneRecordPerUrl ==
    merges > 0 =>
        \A i, j \in 1..Len(store) : store[i].url = store[j].url => i = j

\* C1 witness: a merge has run whose batch repeats a url of the store, and the
\* result holds both urls.
C1_Witness ==
    /\ merges = 2
    /\ carried # {}
    /\ Urls(store) = MergeUrls

\* C2 (as claimed): a record of the store with a rating, merged with a new record
\* of the same url without one, keeps its rating.
C2_CarryOver ==
    \A c \in carried : RecordFor(store, c[1]).personal_rating = c[2]

\* C3: merging the same batch a second time gives the same ordered list.
C3_Idempotent ==
    merges > 0 => again = store

\* C3 witness: the merge replaced a record, added one, and had a tie of sort keys to keep in order.
C3_Witness ==
    /\ merges = 1
    /\ Len(store) = 2
    /\ store[1].title = "alien" /\ store[2].title = "Alien"
    /\ store[1].url = UrlB
    /\ again = store

\* C21: the merged store, as an ordered list, is the same whatever the order in
\* which the detail tasks of the batch completed, records that share a title
\* included.
C21_OrderIndependent == permuted = store

\* The merged store holds the same records, whatever the completion order.
SameRecordsAnyOrder ==
    {store[i] : i \in 1..Len(store)} = {permuted[i] : i \in 1..Len(permuted)}

\* ------------------------------------------------------------------ claims on the runs
\* C4 (as claimed): no run deletes a record: every url of a persisted store is
\* still in that store after every later run.
C4_NoRecordDeleted ==
    [][/\ Urls(cliFile) \subseteq Urls(cliFile')
       /\ Urls(srvFile) \subseteq Urls(srvFile')]_vars

\* The file main() writes, taken alone, never loses a url.
CliFileGrows == [][Urls(cliFile) \subseteq Urls(cliFile')]_vars

\* ------------------------------------------------------------------ claims on get_page_content
\* C8 (as claimed): when get_page_content returns None for a valid url, so that the
\* preferred backend failed on every attempt, and a backend comes after the
\* preferred one, the next backend has been invoked at least once.
C8_FallbackInvoked ==
    (/\ fpc = "returned" /\ fResult = None /\ UrlAccepted(fUrl)
     /\ Later(fCfg) # {})
        => \E b \in Later(fCfg) :
              /\ b \in Invoked
              /\ \A c \in Later(fCfg) : Position(b) <= Position(c)

\* The number of invocations of backend b among the first i calls.
AttemptsOn(b, i) == Cardinality({k \in 1..i : calls[k][1] = b})

\* Call i + 1 is a retry of the backend of call i, one round later, after the
\* backoff sleep of that round.
IsRetry(i) ==
    /\ calls[i + 1][1] = calls[i][1]
    /\ calls[i + 1][2] = calls[i][2] + 1
    /\ Len(sleeps) >= calls[i + 1][2]
    /\ sleeps[calls[i + 1][2]] = 2 ^ calls[i][2]

\* Call i + 1 is the switch to a later backend, its counter at zero.
IsSwitch(i) ==
    /\ Position(calls[i + 1][1]) > Position(calls[i][1])
    /\ AttemptsOn(calls[i + 1][1], i) = 0

\* C23 (as claimed): an invocation that follows a failed one is a retry of the
\* same backend, after a sleep of 2^n, as long as that backend has been tried
\* fewer than retries times, and the switch to the next backend otherwise.
C23_RetryBeforeSwitch ==
    \A i \in 1..(Len(calls) - 1) :
        IF AttemptsOn(calls[i][1], i) < retries THEN IsRetry(i) ELSE IsSwitch(i)

\* A scraper without Playwright retries its one backend, with the sleeps 1, 2.
SingleBackendRetries ==
    ~fCfg.playwright => \A i \in 1..(Len(calls) - 1) : IsRetry(i)

\* C24 (as claimed): get_page_content returns None for a valid url only after
\* every backend the scraper holds has been invoked, the requests backend
\* among them.
C24_FailedAfterAllBackends ==
    (fpc = "returned" /\ fResult = None /\ UrlAccepted(fUrl))
        => /\ Available(fCfg) \subseteq Invoked
           /\ "requests" \in Invoked

\* A scraper without a Selenium browser has invoked requests on every round
\* before it returns None.
RequestsTriedWithoutSelenium ==
    (fpc = "returned" /\ fResult = None /\ UrlAccepted(fUrl) /\ ~fCfg.selenium)
        => /\ Available(fCfg) \subseteq Invoked
           /\ AttemptsOn("requests", Len(calls)) = retries

\* C29: get_page_content returns, after at most retries rounds and at most
\* retries invocations of any backend, and what it returns is the page content
\* or None.
C29_AlwaysTerminates ==
    /\ <>(fpc = "returned")
    /\ [](/\ attempt < retries
          /\ \A b \in Available(fCfg) : AttemptsOn(b, Len(calls)) <= retries)
    /\ [](fpc \in {"start", "playwright", "fallback", "returned"})
    /\ [](fpc = "returned" => fResult \in {Html, None})

\* C29 witness: a valid url, every backend call of every round failed, None
\* returned after the two backoff sleeps.
C29_Witness ==
    /\ fpc = "returned" /\ fResult = None /\ UrlAccepted(fUrl)
    /\ fCfg.playwright
    /\ Len(sleeps) = retries - 1
    /\ Len(calls) = 2 * retries

\* ------------------------------------------------------------------ claims on scrape_all_films
\* C5 (as claimed): after an interrupt, every url whose task had completed when
\* the interrupt came has its record in the list scrape_all_films returns.
C5_CompletedWorkKept ==
    (spc = "returned" /\ interrupted)
        => completedAtSignal \subseteq Urls(detailed_films)

\* C6 (as claimed): in a run that is not interrupted, a url whose processing
\* raised an unhandled error has a failed record, and every other url of the
\* batch has its record too.
C6_FailureIsolated ==
    (spc = "returned" /\ ~interrupted)
        => \A u \in Urls(films_to_process) :
              /\ u \in Urls(detailed_films)
              /\ u \in errored
                    => StartsWithFailed(RecordFor(detailed_films, u).scrape_status)

\* C7: in the parallel modes at most parallel_workers detail fetches are in
\* flight at any moment.
C7_BoundedParallelism ==
    Mode # "sequential" => Cardinality(InFlight) <= parallel_workers

\* C7 witness: as many pages in flight as there are workers while a third film waits.
C7_Witness ==
    /\ Mode = "playwright" /\ spc = "running"
    /\ Cardinality(InFlight) = parallel_workers
    /\ HasPending

\* C9 (as claimed): no backend adapter is invoked for a url that is not a string
\* starting with http:// or https://, and such a url of the batch ends with a
\* failed record.
C9_InvalidShortCircuits ==
    /\ \A u \in invokedFor : UrlAccepted(u)
    /\ (spc = "returned" /\ ~interrupted /\ ~critical)
          => \A u \in Urls(films_to_process) :
                ~UrlAccepted(u) =>
                    /\ u \in Urls(detailed_films)
                    /\ StartsWithFailed(RecordFor(detailed_films, u).scrape_status)

\* C10: a batch of distinct urls that runs to its end, neither interrupted nor
\* aborted, returns exactly one record per url of the batch and none for another
\* url, each with status success or failed.
C10_OneRecordPerUrl ==
    (spc = "returned" /\ ~interrupted /\ ~critical)
        => /\ Len(detailed_films) = Len(films_to_process)
           /\ Urls(detailed_films) = Urls(films_to_process)
           /\ \A i \in 1..Len(detailed_films) :
                 \/ detailed_films[i].scrape_status = StatusSuccess
                 \/ StartsWithFailed(detailed_films[i].scrape_status)

\* C10 witness: three films, returned after the Playwright scraper fell back to
\* requests part-way, with successes and a failure among the records.
C10_Witness ==
    /\ spc = "returned" /\ ~interrupted /\ ~critical
    /\ Mode = "playwright" /\ errored # {}
    /\ Len(detailed_films) = 3
    /\ \E i, j \in 1..3 : /\ detailed_films[i].scrape_status = StatusSuccess
                          /\ StartsWithFailed(detailed_films[j].scrape_status)

\* C11 (as claimed): every record scrape_all_films returns with a status that
\* starts with 'failed:' has the title its url slug gives and no value for any
\* other field, personal_rating included.
C11_FailedRecordInvariant ==
    spc = "returned" =>
        \A i \in 1..Len(detailed_films) :
            StartsWithFailed(detailed_films[i].scrape_status) =>
                /\ detailed_films[i].title = SlugTitle(detailed_films[i].url)
                /\ detailed_films[i].personal_rating \in {Null, Absent}

\* C22 (as claimed): once the interrupt has come, no detail task that had not
\* begun is started, and a task in flight when it comes is left to finish
\* rather than abandoned.
C22_CancellationDrains ==
    [][/\ interrupted => \A u \in DOMAIN task : task[u] = "pending" => task'[u] = "pending"
       /\ interrupted' => \A u \in DOMAIN task : task[u] = "fetching" => task'[u] # "abandoned"
      ]_vars

\* Outside the thread pool no task is started after the interrupt.
NoStartAfterInterruptElsewhere ==
    [][(interrupted /\ Mode # "threadpool")
          => \A u \in DOMAIN task : task[u] = "pending" => task'[u] = "pending"]_vars

\* In the thread pool a task in flight at the interrupt is left to finish.
PoolTasksFinish ==
    [][(interrupted' /\ Mode = "threadpool")
          => \A u \in DOMAIN task : task[u] = "fetching" => task'[u] # "abandoned"]_vars

\* The statuses of a record made because the page could not be fetched.
FetchFailures == {StatusFailed, StatusRequestsError, StatusPlaywrightError}

\* C25 (as claimed): a record that says the detail page of a valid url could not
\* be fetched is made only after a second fetch attempt for that url.
C25_RetriedBeforeFailed ==
    \A i \in 1..Len(detailed_films) :
        (/\ detailed_films[i].scrape_status \in FetchFailures
         /\ UrlAccepted(detailed_films[i].url))
            => tries[detailed_films[i].url] >= 2

\* In sequential mode such a record is made after retries passes of
\* get_page_content.
SequentialTaskRetried ==
    Mode = "sequential" =>
        \A i \in 1..Len(detailed_films) :
            (/\ detailed_films[i].scrape_status \in FetchFailures
             /\ UrlAccepted(detailed_films[i].url))
                => tries[detailed_films[i].url] = retries

NormalUrl(u) ==
    IF u \in {"https://letterboxd.com" \o HrefACase, "https://letterboxd.com" \o HrefANoSlash}
    THEN "https://letterboxd.com" \o HrefA
    ELSE u

\* C12 (as claimed): the list collect_all_films returns holds one entry for a
\* film url, occurrences that differ only in letter case or in a trailing slash
\* counted as the same url.
C12_DiscovererDedup ==
    cpc = "returned" =>
        \A i, j \in 1..Len(unique_films) :
            NormalUrl(unique_films[i].url) = NormalUrl(unique_films[j].url) => i = j

\* The list returned holds no url string twice.
UniqueByExactUrl ==
    \A i, j \in 1..Len(unique_films) : unique_films[i].url = unique_films[j].url => i = j

\* C13: once the first listing page is read, only pages 1..min(T, M) are
\* requested, T the largest page number of its pagination links (1 without
\* links) and M max_pages (no cap without it), and when collect_all_films returns
\* each of them has been requested.
C13_PaginationBound ==
    LET T == IF nums = {} THEN 1 ELSE CHOOSE n \in nums : \A m \in nums : m <= n
        last == IF max_pages # 0 /\ max_pages < T THEN max_pages ELSE T
    IN total_pages > 0 =>
          /\ requested \subseteq 1..last
          /\ cpc = "returned" => requested = 1..last

\* C13 witness: three pages linked, max_pages = 2, and the call has returned
\* films after requesting pages 1 and 2.
C13_Witness ==
    /\ cpc = "returned" /\ max_pages = 2 /\ 3 \in nums
    /\ requested = {1, 2}
    /\ Len(unique_films) = 2

\* The first scan ran to its end: the first page was fetched and the pool is done.
FirstScanDone == cpc \in {"selenium", "returned"} /\ total_pages >= 1

\* The re-scan visited each of the pages 1..total_pages once and its
\* deduplicated entries were returned.
RescannedAll ==
    /\ sel_i = total_pages + 1
    /\ unique_films = Deduplicate(selenium_films, {})

\* No page was re-scanned and the entries of the first scan were returned.
NotRescanned ==
    /\ sel_i = 1 /\ selenium_films = <<>> /\ ~selenium_failed
    /\ unique_films = Deduplicate(listed_films, {})

\* C27 (as claimed): a first scan without entries is followed by one re-scan of
\* every page, whose deduplicated entries are returned; a first scan with an
\* entry is followed by none.
C27_DiscovererFallback ==
    (cpc = "returned" /\ FirstScanDone)
        => IF Deduplicate(listed_films, {}) = <<>> THEN RescannedAll ELSE NotRescanned

\* C27 (amended): a first scan without entries is followed by one re-scan, which
\* visits the pages 1..N in order and at most once each; its deduplicated
\* entries are returned when it runs to its end, and the empty list when the
\* browser cannot be started or fails on a page.  A first scan with an entry is
\* followed by no re-scan.
C27_FallbackOnceOrEmpty ==
    /\ cpc = "selenium" => (Deduplicate(listed_films, {}) = <<>> /\ sel_i <= total_pages + 1)
    /\ (cpc = "returned" /\ FirstScanDone)
          => IF Deduplicate(listed_films, {}) = <<>>
             THEN IF selenium_failed THEN sel_i <= total_pages /\ unique_films = <<>>
                  ELSE RescannedAll
             ELSE NotRescanned

\* C27 witness: an empty first scan of two pages or more, the re-scan of all of
\* them done and its entries returned.
C27_Witness ==
    /\ cpc = "returned" /\ FirstScanDone /\ total_pages >= 2
    /\ Deduplicate(listed_films, {}) = <<>>
    /\ RescannedAll /\ unique_films # <<>>

\* C28 (as claimed): no listing-page fetch of collect_all_films leaves the
\* browser it opened unclosed, whether the fetch gave a page or failed.
C28_BrowsersReleased == left_open = {}

RECURSIVE CssAttribute(_)
CssAttribute(elems) ==
    IF elems = <<>> THEN ""
    ELSE IF Head(elems).attr # "" THEN Head(elems).attr ELSE CssAttribute(Tail(elems))

RECURSIVE CssText(_)
CssText(elems) ==
    IF elems = <<>> THEN ""
    ELSE IF rating_match(Head(elems).text) # "" THEN rating_match(Head(elems).text)
         ELSE CssText(Tail(elems))

\* C14 (as claimed): extract_average_rating returns the value of the first of
\* the structured JSON block, the CSS attribute, the CSS text and the meta tag
\* that gives a value, and nothing when none does.
C14_Cascade ==
    xpc = "done" =>
        xFilm.average_rating =
            IF LdRating(soup.ld_json) # "" THEN LdRating(soup.ld_json)
            ELSE IF CssAttribute(soup.css) # "" THEN CssAttribute(soup.css)
                 ELSE IF CssText(soup.css) # "" THEN CssText(soup.css)
                      ELSE IF soup.meta # "" THEN soup.meta
                           ELSE Null

\* The two cases spec section 8 names: with only a meta tag its value is
\* returned, and the value of a structured block wins over a meta tag.
CascadeExamples ==
    xpc = "done" =>
        /\ (LdRating(soup.ld_json) = "" /\ soup.css = <<>> /\ soup.meta # "")
              => xFilm.average_rating = soup.meta
        /\ LdRating(soup.ld_json) # "" => xFilm.average_rating = LdRating(soup.ld_json)

\* No string twice, and the strings in the order of their first link on the page.
NoDuplicates(list) == \A i, j \in 1..Len(list) : list[i] = list[j] => i = j

FirstLink(links, text) ==
    CHOOSE k \in 1..Len(links) :
        links[k].text = text /\ \A m \in 1..(k - 1) : links[m].text # text

FirstSeenOrder(list, links) ==
    /\ \A i \in 1..Len(list) : \E k \in 1..Len(links) : links[k].text = list[i]
    /\ \A i, j \in 1..Len(list) :
          i < j => FirstLink(links, list[i]) <= FirstLink(links, list[j])

\* C19 (as claimed): every list field of an extracted record has no duplicate
\* string, keeps the first-seen order of the page and respects its cap.
C19_ListFields ==
    xpc = "done" =>
        /\ NoDuplicates(xFilm.genres) /\ FirstSeenOrder(xFilm.genres, soup.genre_links)
        /\ NoDuplicates(xFilm.directors)
        /\ FirstSeenOrder(xFilm.directors, soup.director_links)
        /\ NoDuplicates(xFilm.actors) /\ FirstSeenOrder(xFilm.actors, soup.actor_links)
        /\ NoDuplicates(xFilm.studios) /\ FirstSeenOrder(xFilm.studios, soup.studio_links)
        /\ NoDuplicates(xFilm.country) /\ FirstSeenOrder(xFilm.country, soup.country_links)
        /\ NoDuplicates(xFilm.writers) /\ FirstSeenOrder(xFilm.writers, soup.writer_links)
        /\ Len(xFilm.genres) <= 10 /\ Len(xFilm.directors) <= 2
        /\ Len(xFilm.actors) <= 10 /\ Len(xFilm.writers) <= 2

\* The caps hold, and so does the absence of duplicates in every list but writers.
ListCapsAndDedup ==
    xpc = "done" =>
        /\ Len(xFilm.genres) <= 10 /\ Len(xFilm.directors) <= 2
        /\ Len(xFilm.actors) <= 10 /\ Len(xFilm.writers) <= 2
        /\ NoDuplicates(xFilm.genres) /\ NoDuplicates(xFilm.directors)
        /\ NoDuplicates(xFilm.actors) /\ NoDuplicates(xFilm.studios)
        /\ NoDuplicates(xFilm.country)

\* C20 (as claimed): the description of an extracted record is at most 500
\* characters long, the ellipsis included.
C20_DescriptionLength ==
    (xpc = "done" /\ xFilm.description.found) => xFilm.description.length <= 500

\* ------------------------------------------------------------------ claims on the records of scrape_all_films
\* C16 (as claimed): a url whose extraction raised an exception has a record
\* with status success, and a record has a failed status only when no html was
\* obtained or the page failed the structure check.
C16_FieldGapsNeverEscalate ==
    spc = "returned" =>
        /\ \A u \in DOMAIN task :
              task[u] = "raised" =>
                  /\ u \in Urls(detailed_films)
                  /\ RecordFor(detailed_films, u).scrape_status = StatusSuccess
        /\ \A i \in 1..Len(detailed_films) :
              StartsWithFailed(detailed_films[i].scrape_status) =>
                  detailed_films[i].scrape_status \in
                      {StatusFailed, StatusRequestsError, StatusPlaywrightError, StatusBadPage}

\* C17 (as claimed): in a run that reaches its end, a url whose fetched page
\* fails the structure check has the record 'failed: Invalid page structure',
\* whichever mode fetched it.
C17_StructureMismatchFails ==
    (spc = "returned" /\ ~interrupted /\ ~critical) =>
        \A u \in mismatched :
            /\ u \in Urls(detailed_films)
            /\ RecordFor(detailed_films, u).scrape_status = StatusBadPage

\* In sequential mode, where scrape_film_details makes the check, it does.
SequentialMismatchFails ==
    (spc = "returned" /\ ~interrupted /\ ~critical /\ Mode = "sequential") =>
        \A u \in mismatched :
            /\ u \in Urls(detailed_films)
            /\ RecordFor(detailed_films, u).scrape_status = StatusBadPage

\* ------------------------------------------------------------------ claims on the runs of main
\* The urls whose stored record is a failed one.
FailedUrls(films) ==
    {films[i].url : i \in {j \in 1..Len(films) : StartsWithFailed(films[j].scrape_status)}}

\* C18: a run of main does not hand to scrape_all_films a url whose stored
\* record is a failed one, unless the user answered yes to re-scraping
\* everything.
C18_FailedNotRescheduled ==
    [][(runs' # runs /\ lastRun'.kind = "main" /\ ~lastRun'.rescrape)
          => lastRun'.scheduled \cap FailedUrls(cliFile) = {}]_vars

\* C18 witness: a run of main that scraped a new film and left alone a listed
\* film whose stored record is a failed one.
C18_Witness ==
    /\ lastRun.kind = "main" /\ ~lastRun.rescrape
    /\ lastRun.scheduled # {}
    /\ (lastRun.listed \ lastRun.scheduled) \cap FailedUrls(cliFile) # {}

\* C30: a run, of main or of the /api/scrape handler, whose discovery returned
\* no film hands nothing to scrape_all_films, does not write its store file and
\* leaves both files as they were.
C30_EmptyDiscoveryNoWrite ==
    [][(runs' # runs /\ lastRun'.listed = {})
          => /\ lastRun'.scheduled = {}
             /\ ~lastRun'.wrote
             /\ cliFile' = cliFile /\ srvFile' = srvFile]_vars

\* C30 witness: a run of main over a store that holds records, its discovery
\* empty.
C30_Witness ==
    /\ lastRun.kind = "main" /\ lastRun.listed = {}
    /\ cliFile # <<>>

\* The same for the /api/scrape handler.
EmptyDiscoveryOnServer ==
    [][(runs' # runs /\ lastRun'.kind = "server" /\ lastRun'.listed = {})
          => ~lastRun'.wrote /\ srvFile' = srvFile]_vars

====
